---- MODULE Spec2Model ----
(***************************************************************************)
(* A model of MEC.py, the Model Extender for COPASI: one seed model is     *)
(* replicated into a set (1xN, Nx1) or a grid (RxC) of copies whose names  *)
(* carry a positional suffix.                                              *)
(*                                                                         *)
(* Strings are sequences of one-character strings, so that the regular     *)
(* expressions, the splits and the concatenations of the script are        *)
(* computed the way Python computes them.  The alphabet is ASCII letters,  *)
(* digits, '_' and the punctuation listed in NonWord; the only whitespace  *)
(* character is the blank.  Names of seed elements are made of word        *)
(* characters only, so a name used as a regular expression matches itself. *)
(*                                                                         *)
(* The body of the event loop (MEC.py:373-378) is absent in the source;    *)
(* it is read here as an empty loop body.  Messages printed, notes, units  *)
(* and MIRIAM annotations (MEC.py:214-262) do not influence the entities   *)
(* and are left out of NewModel.                                           *)
(***************************************************************************)
EXTENDS Integers, Sequences, FiniteSets, TLC

VARIABLES
    pc,             \* position of the script
    status,         \* exit status of the process, -1 while running
    seedmodelfile,  \* args.filename
    gridr,          \* args.rows
    gridc,          \* args.columns
    newfilename,    \* name of the output file
    disk,           \* the seed model stored in seedmodelfile
    seedmodel,      \* the loaded seed model (<<>> before load_model)
    mparams, mcomps, mspecs, mreacts,                   \* the seed tables
    seednparams, seedncomps, seednspecs, seednreacts,   \* their sizes
    newmodel,       \* the model under construction
    i, r, c,        \* loop variables of the main loop
    apdx,           \* suffix of the current replica
    k,              \* index of the next Model Store call of the current replica
    saved,          \* files written by save_model
    log,            \* history of the Model Store calls that built newmodel
    expression,     \* argument of fix_expression
    items,          \* the references and literals expression is made of
    ex,             \* value returned by fix_expression
    scheme,         \* a reaction's scheme
    rs,             \* the rewritten scheme
    mapping,        \* a reaction's mapping table in the seed model
    mapp            \* the rewritten mapping table

vars == << pc, status, seedmodelfile, gridr, gridc, newfilename, disk,
           seedmodel, mparams, mcomps, mspecs, mreacts, seednparams,
           seedncomps, seednspecs, seednreacts, newmodel, i, r, c, apdx, k,
           saved, log, expression, items, ex, scheme, rs, mapping, mapp >>

-----------------------------------------------------------------------------
(* Bounds *)

MaxRows == 3
MaxCols == 10
MaxCells == 10
MaxItems == 3
MaxPieces == 3
MaxFileLen == 4
MaxList == 2

-----------------------------------------------------------------------------
(* Characters and strings *)

NonWord == {"[", "]", "(", ")", ".", "+", "-", "*", "/", "=", ">", " ", ";", ","}

IsWord(ch) == ch \notin NonWord

IsSpace(ch) == ch = " "

IsDigit(ch) == ch \in {"0", "1", "2", "3", "4", "5", "6", "7", "8", "9"}

Min(S) == CHOOSE x \in S : \A y \in S : x <= y

Max(S) == CHOOSE x \in S : \A y \in S : y <= x

RECURSIVE Concat(_)
Concat(ss) == IF ss = <<>> THEN <<>> ELSE Head(ss) \o Concat(Tail(ss))

RECURSIVE Join(_, _)
Join(ss, sep) ==
    IF ss = <<>> THEN <<>>
    ELSE IF Len(ss) = 1 THEN Head(ss)
    ELSE Head(ss) \o sep \o Join(Tail(ss), sep)

\* the sequences over S of length 0..n
RECURSIVE SeqsUpTo(_, _)
SeqsUpTo(S, n) ==
    IF n = 0 THEN {<<>>}
    ELSE LET shorter == SeqsUpTo(S, n - 1)
         IN  shorter \cup {Append(s, x) : s \in shorter, x \in S}

DigitChar(d) == <<"0", "1", "2", "3", "4", "5", "6", "7", "8", "9">>[d + 1]

\* str(n) for n >= 0, as the f-strings format an int
RECURSIVE Str(_)
Str(n) == IF n < 10 THEN <<DigitChar(n)>>
          ELSE Str(n \div 10) \o <<DigitChar(n % 10)>>

-----------------------------------------------------------------------------
(* Auxiliary functions *)

Names(table) == {table[j].name : j \in DOMAIN table}

\* basico's getters return None for a table without rows
IsNone(table) == table = <<>>

is_element(candidate) ==
    \/ seednparams > 0 /\ candidate \in Names(mparams)
    \/ seedncomps > 0 /\ candidate \in Names(mcomps)
    \/ seednspecs > 0 /\ candidate \in Names(mspecs)
    \/ seednreacts > 0 /\ candidate \in Names(mreacts)

\* re.findall(open (.+?) close, s) from position p on: the captured groups
RECURSIVE FindAllDelim(_, _, _, _)
FindAllDelim(s, p, open, close) ==
    IF p > Len(s) THEN <<>>
    ELSE IF s[p] = open
         THEN LET qs == {q \in (p + 2)..Len(s) : s[q] = close}
              IN  IF qs = {} THEN FindAllDelim(s, p + 1, open, close)
                  ELSE <<SubSeq(s, p + 1, Min(qs) - 1)>>
                         \o FindAllDelim(s, Min(qs) + 1, open, close)
         ELSE FindAllDelim(s, p + 1, open, close)

\* re.findall(r'([^\s\]\)]+?)\.\w', s) from position p on
RECURSIVE FindAllDotted(_, _)
FindAllDotted(s, p) ==
    IF p > Len(s) THEN <<>>
    ELSE LET ok(ch) == ~IsSpace(ch) /\ ch # "]" /\ ch # ")"
             ns == {n \in 1..(Len(s) - p - 1) :
                      /\ \A j \in p..(p + n - 1) : ok(s[j])
                      /\ s[p + n] = "."
                      /\ IsWord(s[p + n + 1])}
         IN  IF ns = {} THEN FindAllDotted(s, p + 1)
             ELSE <<SubSeq(s, p, p + Min(ns) - 1)>>
                    \o FindAllDotted(s, p + Min(ns) + 2)

\* re.sub(pat, repl, s) for a literal pattern, from position p on
RECURSIVE SubLiteral(_, _, _, _)
SubLiteral(s, p, pat, repl) ==
    IF p > Len(s) THEN <<>>
    ELSE IF p + Len(pat) - 1 <= Len(s) /\ SubSeq(s, p, p + Len(pat) - 1) = pat
         THEN repl \o SubLiteral(s, p + Len(pat), pat, repl)
         ELSE <<s[p]>> \o SubLiteral(s, p + 1, pat, repl)

\* re.sub(el\.(\w), elnew.\1, s), from position p on
RECURSIVE SubDotted(_, _, _, _)
SubDotted(s, p, el, elnew) ==
    IF p > Len(s) THEN <<>>
    ELSE IF /\ p + Len(el) + 1 <= Len(s)
            /\ SubSeq(s, p, p + Len(el) - 1) = el
            /\ s[p + Len(el)] = "."
            /\ IsWord(s[p + Len(el) + 1])
         THEN elnew \o <<".", s[p + Len(el) + 1]>>
                \o SubDotted(s, p + Len(el) + 2, el, elnew)
         ELSE <<s[p]>> \o SubDotted(s, p + 1, el, elnew)

\* the loop "for el in vars" of the bracket and parenthesis passes
RECURSIVE FixDelim(_, _, _, _, _)
FixDelim(e, found, suff, open, close) ==
    IF found = <<>> THEN e
    ELSE LET el == Head(found)
             e2 == IF is_element(el)
                   THEN SubLiteral(e, 1, <<open>> \o el \o <<close>>,
                                   <<open>> \o el \o suff \o <<close>>)
                   ELSE e
         IN  FixDelim(e2, Tail(found), suff, open, close)

\* the loop "for el in vars" of the dotted pass
RECURSIVE FixDotted(_, _, _)
FixDotted(e, found, suff) ==
    IF found = <<>> THEN e
    ELSE LET el == Head(found)
             e2 == IF is_element(el) THEN SubDotted(e, 1, el, el \o suff)
                   ELSE e
         IN  FixDotted(e2, Tail(found), suff)

fix_expression(e, suff) ==
    LET e1 == FixDelim(e, FindAllDelim(e, 1, "[", "]"), suff, "[", "]")
        e2 == FixDelim(e1, FindAllDelim(e1, 1, "(", ")"), suff, "(", ")")
    IN  FixDotted(e2, FindAllDotted(e2, 1), suff)

\* the letters of "infinity" and "nan" in lower case, other characters as they are
LowerChar(ch) ==
    CASE ch = "I" -> "i" [] ch = "N" -> "n" [] ch = "F" -> "f"
      [] ch = "T" -> "t" [] ch = "Y" -> "y" [] ch = "A" -> "a"
      [] OTHER -> ch

Lower(s) == [j \in DOMAIN s |-> LowerChar(s[j])]

\* digit ("_"? digit)*
IsDigitPart(s) ==
    /\ s # <<>>
    /\ \A j \in DOMAIN s :
          \/ IsDigit(s[j])
          \/ /\ s[j] = "_"
             /\ j > 1 /\ j < Len(s)
             /\ IsDigit(s[j - 1]) /\ IsDigit(s[j + 1])

IsMantissa(s) ==
    \/ IsDigitPart(s)
    \/ \E d \in DOMAIN s :
          /\ s[d] = "."
          /\ LET a == SubSeq(s, 1, d - 1)
                 b == SubSeq(s, d + 1, Len(s))
             IN  \/ IsDigitPart(a) /\ (b = <<>> \/ IsDigitPart(b))
                 \/ a = <<>> /\ IsDigitPart(b)

Unsigned(s) == IF s # <<>> /\ s[1] \in {"+", "-"} THEN Tail(s) ELSE s

IsDecimal(s) ==
    \/ IsMantissa(s)
    \/ \E e \in DOMAIN s :
          /\ s[e] \in {"e", "E"}
          /\ IsMantissa(SubSeq(s, 1, e - 1))
          /\ IsDigitPart(Unsigned(SubSeq(s, e + 1, Len(s))))

\* float(string) does not raise ValueError (string holds no whitespace)
is_float(string) ==
    LET u == Unsigned(string)
    IN  \/ Lower(u) \in { <<"i", "n", "f">>, <<"n", "a", "n">>,
                          <<"i", "n", "f", "i", "n", "i", "t", "y">> }
        \/ IsDecimal(u)

\* s.split(sep) for a one-character separator
RECURSIVE SplitOn(_, _)
SplitOn(s, sep) ==
    LET ps == {p \in DOMAIN s : s[p] = sep}
    IN  IF ps = {} THEN <<s>>
        ELSE <<SubSeq(s, 1, Min(ps) - 1)>>
               \o SplitOn(SubSeq(s, Min(ps) + 1, Len(s)), sep)

\* s.split(): the maximal runs of non-whitespace characters
RECURSIVE SplitWs(_)
SplitWs(s) ==
    IF s = <<>> THEN <<>>
    ELSE IF IsSpace(s[1]) THEN SplitWs(Tail(s))
    ELSE LET ws == {p \in DOMAIN s : IsSpace(s[p])}
         IN  IF ws = {} THEN <<s>>
             ELSE <<SubSeq(s, 1, Min(ws) - 1)>>
                    \o SplitWs(SubSeq(s, Min(ws), Len(s)))

\* every token gets the suffix, operators and numbers too
RECURSIVE MainClauseAllSuffixed(_, _)
MainClauseAllSuffixed(toks, suff) ==
    IF toks = <<>> THEN <<>>
    ELSE Head(toks) \o suff \o <<" ">> \o MainClauseAllSuffixed(Tail(toks), suff)

\* the loop over tok2[0]
RECURSIVE MainClause(_, _)
MainClause(toks, suff) ==
    IF toks = <<>> THEN <<>>
    ELSE LET t == Head(toks)
         IN  (IF \/ t = <<"=">> \/ t = <<"-", ">">> \/ t = <<"+">>
                 \/ is_float(t) \/ t = <<"*">>
              THEN t \o <<" ">>
              ELSE t \o suff \o <<" ">>)
             \o MainClause(Tail(toks), suff)

\* the loop over tok2[1]
RECURSIVE ModifierClause(_, _)
ModifierClause(toks, suff) ==
    IF toks = <<>> THEN <<>>
    ELSE Head(toks) \o suff \o <<" ">> \o ModifierClause(Tail(toks), suff)

\* rs[:len(rs)-1]
DropLast(s) == IF s = <<>> THEN <<>> ELSE SubSeq(s, 1, Len(s) - 1)

\* the reaction string built from a scheme
RewriteScheme(sch, suff) ==
    LET tok == SplitOn(sch, ";")
        tok2 == [j \in DOMAIN tok |-> SplitWs(tok[j])]
        rs0 == MainClause(tok2[1], suff)
    IN  IF Len(tok2) > 1
        THEN DropLast(rs0) \o <<";", " ">> \o ModifierClause(tok2[2], suff)
        ELSE rs0

\* a value of a mapping table: a string, a list of strings or a number
StrVal(s) == [t |-> "str", s |-> s]

ListVal(l) == [t |-> "list", l |-> l]

NumVal(n) == [t |-> "num", n |-> n]

FixValue(v, suff) ==
    IF v.t = "str" THEN StrVal(v.s \o suff)
    ELSE IF v.t = "list" THEN ListVal([j \in DOMAIN v.l |-> v.l[j] \o suff])
    ELSE v

\* the loop "for key in mapp" on the dictionary that the variable mapp names
FixMappingAt(heap, obj, suff) ==
    [heap EXCEPT ![obj] = [key \in DOMAIN heap[obj] |-> FixValue(heap[obj][key], suff)]]

\* the seed's dictionary shared with mapp: the loop writes into the seed
FixMappingShared(m, suff) ==
    LET heap == FixMappingAt([seed |-> m], "seed", suff)
    IN  [seed |-> heap.seed, mapp |-> heap.seed]

\* mapp = mapping.copy() and the loop: the seed's dictionary and the new one
FixMapping(m, suff) ==
    LET heap == FixMappingAt([seed |-> m, mapp |-> m], "mapp", suff)
    IN  [seed |-> heap.seed, mapp |-> heap.mapp]

\* os.path.splitext(p) on a POSIX path
splitext(p) ==
    LET seps == {j \in DOMAIN p : p[j] = "/"}
        dots == {j \in DOMAIN p : p[j] = "."}
        sepIndex == IF seps = {} THEN 0 ELSE Max(seps)
        dotIndex == IF dots = {} THEN 0 ELSE Max(dots)
    IN  IF /\ dotIndex > sepIndex
           /\ \E j \in (sepIndex + 1)..(dotIndex - 1) : p[j] # "."
        THEN [base |-> SubSeq(p, 1, dotIndex - 1), ext |-> SubSeq(p, dotIndex, Len(p))]
        ELSE [base |-> p, ext |-> <<>>]

-----------------------------------------------------------------------------
(* Seed models *)

Parameter(name, type, expr, iexpr) ==
    [name |-> name, type |-> type, initial_value |-> 1, unit |-> "1",
     expression |-> expr, initial_expression |-> iexpr]

Compartment(name, type, expr, iexpr) ==
    [name |-> name, type |-> type, initial_size |-> 1, unit |-> "l",
     expression |-> expr, initial_expression |-> iexpr]

Species(name, comp, type, expr, iexpr) ==
    [name |-> name, compartment |-> comp, type |-> type,
     initial_concentration |-> 1, unit |-> "mol/l",
     expression |-> expr, initial_expression |-> iexpr]

Reaction(name, sch, map, function) ==
    [name |-> name, scheme |-> sch, mapping |-> map, function |-> function]

ParameterTables ==
    { <<>>,
      << Parameter(<<"A">>, "fixed", <<>>, <<>>) >>,
      << Parameter(<<"A">>, "assignment", <<"[", "S", "]", "*", "R", ".", "F">>, <<>>),
         Parameter(<<"A", "_", "1">>, "fixed", <<>>, <<"(", "A", ")">>) >> }

CompartmentTables ==
    { <<>>,
      << Compartment(<<"V">>, "fixed", <<>>, <<"(", "A", ")">>) >> }

SpeciesTable ==
    << Species(<<"S">>, <<"V">>, "reactions", <<>>, <<>>),
       Species(<<"T">>, <<"V">>, "ode", <<"R", ".", "F">>, <<"[", "S", "]">>) >>

\* a reaction table of a model with the species of SpeciesTable
ReactionTable ==
    << Reaction(<<"R">>,
                <<"S", " ", "-", ">", " ", "2", " ", "*", " ", "T", ";", " ", "S">>,
                [k1 |-> NumVal(1), s |-> StrVal(<<"S">>),
                 m |-> ListVal(<< <<"S">>, <<"T">> >>)],
                "f") >>

\* a reaction table of a model without species: the reaction has no equation
BareReactionTable ==
    << Reaction(<<"R">>, <<>>, [k1 |-> NumVal(1)], "f") >>

Seed(p, cm, sp, re) == [mparams |-> p, mcomps |-> cm, mspecs |-> sp, mreacts |-> re]

\* species live in a compartment, and a scheme names species of the model
Seeds ==
    { Seed(p, cm, <<>>, re) :
        p \in ParameterTables, cm \in CompartmentTables,
        re \in {<<>>, BareReactionTable} }
    \cup
    { Seed(p, cm, SpeciesTable, re) :
        p \in ParameterTables, cm \in CompartmentTables \ {<<>>},
        re \in {<<>>, ReactionTable} }

Grids ==
    { g \in (1..MaxRows) \X (1..MaxCols) : g[1] * g[2] <= MaxCells }

NoModel == [created |-> FALSE, params |-> <<>>, comps |-> <<>>,
            species |-> <<>>, reacts |-> <<>>]

NotLoaded == [loaded |-> FALSE, mparams |-> <<>>, mcomps |-> <<>>,
              mspecs |-> <<>>, mreacts |-> <<>>]

-----------------------------------------------------------------------------
(* The script *)

RunIdle ==
    /\ status = -1
    /\ newfilename = <<>>
    /\ seedmodel = NotLoaded
    /\ newmodel = NoModel
    /\ i = 0 /\ r = 0 /\ c = 0 /\ k = 1
    /\ saved = <<>>
    /\ log = <<>>

NoTables ==
    /\ mparams = <<>> /\ mcomps = <<>> /\ mspecs = <<>> /\ mreacts = <<>>
    /\ seednparams = 0 /\ seedncomps = 0 /\ seednspecs = 0 /\ seednreacts = 0

PureIdle ==
    /\ expression = <<>> /\ items = <<>> /\ ex = <<>>
    /\ scheme = <<>> /\ rs = <<>>
    /\ mapping = <<>> /\ mapp = <<>>

Init ==
    /\ pc = "sanity"
    /\ seedmodelfile = <<"m", ".", "c", "p", "s">>
    /\ \E g \in Grids : gridr = g[1] /\ gridc = g[2]
    /\ disk \in Seeds
    /\ apdx = <<>>
    /\ RunIdle /\ NoTables /\ PureIdle

pureVars == << expression, items, ex, scheme, rs, mapping, mapp >>

tableVars == << mparams, mcomps, mspecs, mreacts, seednparams, seedncomps,
                seednspecs, seednreacts >>

argVars == << seedmodelfile, gridr, gridc, disk >>

loopVars == << i, r, c, apdx, k >>

\* the branches for one row and for one column took each other's count
fsuffSwapped ==
    IF gridr = 1 THEN <<"_">> \o Str(gridr)
    ELSE IF gridc = 1 THEN <<"_">> \o Str(gridc)
    ELSE <<"_">> \o Str(gridr) \o <<"x">> \o Str(gridc)

fsuff ==
    IF gridr = 1 THEN <<"_">> \o Str(gridc)
    ELSE IF gridc = 1 THEN <<"_">> \o Str(gridr)
    ELSE <<"_">> \o Str(gridr) \o <<"x">> \o Str(gridc)

NewFileName == splitext(seedmodelfile).base \o fsuff \o <<".", "c", "p", "s">>

\* the test looks at the rows only
OneRow == gridr = 1

NothingToDo == gridr * gridc = 1

SanityCheck ==
    /\ pc = "sanity"
    /\ \/ /\ NothingToDo
          /\ pc' = "exited"
          /\ status' = 0
          /\ UNCHANGED newfilename
       \/ /\ ~NothingToDo
          /\ pc' = "load"
          /\ newfilename' = NewFileName
          /\ UNCHANGED status
    /\ UNCHANGED << argVars, seedmodel, tableVars, newmodel, loopVars, saved,
                    log, pureVars >>

LoadModel ==
    /\ pc = "load"
    /\ seedmodel' = [loaded |-> TRUE, mparams |-> disk.mparams,
                     mcomps |-> disk.mcomps, mspecs |-> disk.mspecs,
                     mreacts |-> disk.mreacts]
    /\ pc' = "tables"
    /\ UNCHANGED << status, argVars, newfilename, tableVars, newmodel,
                    loopVars, saved, log, pureVars >>

\* mreacts.shape[0] raises AttributeError when get_reactions returned None
ShapeOfNone == ~IsNone(seedmodel.mspecs) /\ IsNone(seedmodel.mreacts)

\* seednreacts: the test looks at mspecs
SeedNReacts(sp, re) == IF IsNone(sp) THEN 0 ELSE Len(re)

\* the globals as lines 145-195 leave them for a seed whose tables can be read
Tables(seed) ==
    [mparams |-> seed.mparams, mcomps |-> seed.mcomps,
     mspecs |-> seed.mspecs, mreacts |-> seed.mreacts,
     seednparams |-> IF IsNone(seed.mparams) THEN 0 ELSE Len(seed.mparams),
     seedncomps |-> IF IsNone(seed.mcomps) THEN 0 ELSE Len(seed.mcomps),
     seednspecs |-> IF IsNone(seed.mspecs) THEN 0 ELSE Len(seed.mspecs),
     seednreacts |-> SeedNReacts(seed.mspecs, seed.mreacts)]

GetTables ==
    /\ pc = "tables"
    /\ LET got == Tables(seedmodel)
       IN  /\ mparams' = got.mparams /\ seednparams' = got.seednparams
           /\ mcomps' = got.mcomps /\ seedncomps' = got.seedncomps
           /\ mspecs' = got.mspecs /\ seednspecs' = got.seednspecs
           /\ mreacts' = got.mreacts
           /\ \/ /\ ShapeOfNone
                 /\ seednreacts' = 0
                 /\ pc' = "aborted"
                 /\ status' = 1
              \/ /\ ~ShapeOfNone
                 /\ seednreacts' = got.seednreacts
                 /\ pc' = "new"
                 /\ UNCHANGED status
    /\ UNCHANGED << argVars, newfilename, seedmodel, newmodel, loopVars,
                    saved, log, pureVars >>

new_model ==
    /\ pc = "new"
    /\ newmodel' = [NoModel EXCEPT !.created = TRUE]
    /\ i' = 0 /\ r' = 0 /\ c' = 0
    /\ pc' = "loop"
    /\ UNCHANGED << status, argVars, newfilename, seedmodel, tableVars, apdx,
                    k, saved, log, pureVars >>

\* the suffix counts the columns only
SuffixByColumn == <<"_">> \o Str(c + 1)

Suffix ==
    IF gridr = 1 \/ gridc = 1 THEN <<"_">> \o Str(i + 1)
    ELSE <<"_">> \o Str(r + 1) \o <<",">> \o Str(c + 1)

BeginCell ==
    /\ pc = "loop"
    /\ apdx' = Suffix
    /\ k' = 1
    /\ pc' = "cell"
    /\ UNCHANGED << status, argVars, newfilename, seedmodel, tableVars,
                    newmodel, i, r, c, saved, log, pureVars >>

Call(op, j, what) == [op |-> op, j |-> j, what |-> what]

Adds(n, table, op) ==
    IF n > 0 THEN [j \in 1..Len(table) |-> Call(op, j, "")] ELSE <<>>

\* the calls of one iteration of a loop of the third phase
SetsOf(row, op, j) ==
    (IF row.initial_expression # <<>>
     THEN << Call(op, j, "initial_expression") >> ELSE <<>>)
    \o
    (IF row.type = "assignment" \/ row.type = "ode"
     THEN << Call(op, j, "expression") >> ELSE <<>>)

Sets(n, table, op) ==
    IF n > 0 THEN Concat([j \in 1..Len(table) |-> SetsOf(table[j], op, j)])
    ELSE <<>>

FirstPhase ==
    Adds(seednparams, mparams, "add_parameter")
    \o Adds(seedncomps, mcomps, "add_compartment")
    \o Adds(seednspecs, mspecs, "add_species")

SecondPhase == Adds(seednreacts, mreacts, "add_reaction")

ThirdPhase ==
    Sets(seednparams, mparams, "set_parameters")
    \o Sets(seedncomps, mcomps, "set_compartment")
    \o Sets(seednspecs, mspecs, "set_species")

\* the expressions are set before the reactions exist
CellCallsExprFirst == FirstPhase \o ThirdPhase \o SecondPhase

\* the Model Store calls of one replica, in the order the loop body makes them
CellCalls == FirstPhase \o SecondPhase \o ThirdPhase

AtCall(op) == pc = "cell" /\ k <= Len(CellCalls) /\ CellCalls[k].op = op

Logged(call, nname) ==
    Append(log, [op |-> call.op, what |-> call.what, r |-> r, c |-> c,
                 seed |-> call.j, name |-> nname])

callFrame == << status, argVars, newfilename, seedmodel, i, r, c, apdx,
                saved, pureVars >>

AddParameter ==
    /\ AtCall("add_parameter")
    /\ LET p == mparams[CellCalls[k].j]
           nname == p.name \o apdx
       IN  /\ newmodel' = [newmodel EXCEPT !.params = Append(@,
                  [name |-> nname, status |-> "fixed",
                   initial_value |-> p.initial_value, unit |-> p.unit,
                   expression |-> <<>>, initial_expression |-> <<>>])]
           /\ log' = Logged(CellCalls[k], nname)
    /\ k' = k + 1
    /\ UNCHANGED << pc, callFrame, tableVars >>

AddCompartment ==
    /\ AtCall("add_compartment")
    /\ LET p == mcomps[CellCalls[k].j]
           nname == p.name \o apdx
       IN  /\ newmodel' = [newmodel EXCEPT !.comps = Append(@,
                  [name |-> nname, status |-> p.type,
                   initial_size |-> p.initial_size, unit |-> p.unit,
                   expression |-> <<>>, initial_expression |-> <<>>])]
           /\ log' = Logged(CellCalls[k], nname)
    /\ k' = k + 1
    /\ UNCHANGED << pc, callFrame, tableVars >>

AddSpecies ==
    /\ AtCall("add_species")
    /\ LET p == mspecs[CellCalls[k].j]
           nname == p.name \o apdx
           cp == p.compartment \o apdx
       IN  /\ newmodel' = [newmodel EXCEPT !.species = Append(@,
                  [name |-> nname, compartment_name |-> cp, status |-> p.type,
                   initial_concentration |-> p.initial_concentration,
                   unit |-> p.unit,
                   expression |-> <<>>, initial_expression |-> <<>>])]
           /\ log' = Logged(CellCalls[k], nname)
    /\ k' = k + 1
    /\ UNCHANGED << pc, callFrame, tableVars >>

AddReaction ==
    /\ AtCall("add_reaction")
    /\ LET j == CellCalls[k].j
           p == mreacts[j]
           nname == p.name \o apdx
           fixed == FixMapping(p.mapping, apdx)
       IN  /\ newmodel' = [newmodel EXCEPT !.reacts = Append(@,
                  [name |-> nname, scheme |-> RewriteScheme(p.scheme, apdx),
                   mapping |-> fixed.mapp, function |-> p.function])]
           /\ mreacts' = [mreacts EXCEPT ![j].mapping = fixed.seed]
           /\ log' = Logged(CellCalls[k], nname)
    /\ k' = k + 1
    /\ UNCHANGED << pc, callFrame, mparams, mcomps, mspecs, seednparams,
                    seedncomps, seednspecs, seednreacts >>

\* set_...(name=nname, exact=True, ...): the patch of the rows of that name
Patch(rows, nname, call, row) ==
    [n \in DOMAIN rows |->
        IF rows[n].name # nname THEN rows[n]
        ELSE IF call.what = "initial_expression"
        THEN [rows[n] EXCEPT
                !.initial_expression = fix_expression(row.initial_expression, apdx)]
        ELSE IF call.op = "set_parameters"
        THEN [rows[n] EXCEPT !.status = row.type,
                             !.expression = fix_expression(row.expression, apdx)]
        ELSE [rows[n] EXCEPT !.expression = fix_expression(row.expression, apdx)]]

SetParameters ==
    /\ AtCall("set_parameters")
    /\ LET p == mparams[CellCalls[k].j]
           nname == p.name \o apdx
       IN  /\ newmodel' = [newmodel EXCEPT
                              !.params = Patch(@, nname, CellCalls[k], p)]
           /\ log' = Logged(CellCalls[k], nname)
    /\ k' = k + 1
    /\ UNCHANGED << pc, callFrame, tableVars >>

SetCompartment ==
    /\ AtCall("set_compartment")
    /\ LET p == mcomps[CellCalls[k].j]
           nname == p.name \o apdx
       IN  /\ newmodel' = [newmodel EXCEPT
                              !.comps = Patch(@, nname, CellCalls[k], p)]
           /\ log' = Logged(CellCalls[k], nname)
    /\ k' = k + 1
    /\ UNCHANGED << pc, callFrame, tableVars >>

SetSpecies ==
    /\ AtCall("set_species")
    /\ LET p == mspecs[CellCalls[k].j]
           nname == p.name \o apdx
       IN  /\ newmodel' = [newmodel EXCEPT
                              !.species = Patch(@, nname, CellCalls[k], p)]
           /\ log' = Logged(CellCalls[k], nname)
    /\ k' = k + 1
    /\ UNCHANGED << pc, callFrame, tableVars >>

\* the end of the loop body: the event loop does nothing, then i += 1
EndCell ==
    /\ pc = "cell"
    /\ k > Len(CellCalls)
    /\ i' = i + 1
    /\ IF c + 1 < gridc THEN c' = c + 1 /\ r' = r /\ pc' = "loop"
       ELSE IF r + 1 < gridr THEN c' = 0 /\ r' = r + 1 /\ pc' = "loop"
       ELSE c' = c /\ r' = r /\ pc' = "save"
    /\ UNCHANGED << status, argVars, newfilename, seedmodel, tableVars,
                    newmodel, apdx, k, saved, log, pureVars >>

save_model ==
    /\ pc = "save"
    /\ saved' = Append(saved, [filename |-> newfilename, model |-> newmodel])
    /\ pc' = "done"
    /\ status' = 0
    /\ UNCHANGED << argVars, newfilename, seedmodel, tableVars, newmodel,
                    loopVars, log, pureVars >>

\* a call of the Model Store is pending
InStoreCall ==
    \/ pc \in {"load", "tables", "new", "save"}
    \/ pc = "cell" /\ k <= Len(CellCalls)

\* the exception is caught and the run goes on to save what it has
RaiseCaught ==
    /\ InStoreCall
    /\ pc # "save"
    /\ pc' = "save"
    /\ UNCHANGED << status, argVars, newfilename, seedmodel, tableVars,
                    newmodel, loopVars, saved, log, pureVars >>

\* the pending call raises: nothing catches it, the interpreter exits with 1
Raise ==
    /\ InStoreCall
    /\ pc' = "aborted"
    /\ status' = 1
    /\ UNCHANGED << argVars, newfilename, seedmodel, tableVars, newmodel,
                    loopVars, saved, log, pureVars >>

Next ==
    \/ SanityCheck
    \/ LoadModel
    \/ GetTables
    \/ new_model
    \/ BeginCell
    \/ AddParameter
    \/ AddCompartment
    \/ AddSpecies
    \/ AddReaction
    \/ SetParameters
    \/ SetCompartment
    \/ SetSpecies
    \/ EndCell
    \/ save_model
    \/ Raise

Spec == Init /\ [][Next]_vars

-----------------------------------------------------------------------------
(* Properties of a run *)

Cells == (0..(gridr - 1)) \X (0..(gridc - 1))

\* the suffix of the replica in row rr and column cc (counted from 0)
SuffixAt(rr, cc) ==
    IF gridr = 1 \/ gridc = 1 THEN <<"_">> \o Str(rr * gridc + cc + 1)
    ELSE <<"_">> \o Str(rr + 1) \o <<",">> \o Str(cc + 1)

\* the names a replica got in the table filled by the call op
CreatedBy(op, rr, cc) ==
    {log[n].name : n \in {m \in DOMAIN log :
                            log[m].op = op /\ log[m].r = rr /\ log[m].c = cc}}

Suffixed(table, rr, cc) == {name \o SuffixAt(rr, cc) : name \in Names(table)}

Distinct(rows) == Cardinality(Names(rows)) = Len(rows)

IsAdd(op) == op \in {"add_parameter", "add_compartment", "add_species", "add_reaction"}

SeedTableOf(op) ==
    CASE op \in {"add_parameter", "set_parameters"} -> disk.mparams
      [] op \in {"add_compartment", "set_compartment"} -> disk.mcomps
      [] op \in {"add_species", "set_species"} -> disk.mspecs
      [] op = "add_reaction" -> disk.mreacts

\* C1: a completed run leaves NewModel with R*C times the seed's parameters,
\* compartments, species and reactions; in every replica the names created in
\* each table are the seed's names with the replica's suffix, all distinct.
C1_ReplicaCounts ==
    pc = "done" =>
        /\ Len(newmodel.params) = gridr * gridc * Len(disk.mparams)
        /\ Len(newmodel.comps) = gridr * gridc * Len(disk.mcomps)
        /\ Len(newmodel.species) = gridr * gridc * Len(disk.mspecs)
        /\ Len(newmodel.reacts) = gridr * gridc * Len(disk.mreacts)
        /\ \A cell \in Cells :
              \A op \in {"add_parameter", "add_compartment", "add_species", "add_reaction"} :
                 CreatedBy(op, cell[1], cell[2])
                    = Suffixed(SeedTableOf(op), cell[1], cell[2])
        /\ Distinct(newmodel.params) /\ Distinct(newmodel.comps)
        /\ Distinct(newmodel.species) /\ Distinct(newmodel.reacts)

\* the suffix is _i on a set and _r,c on a grid, it differs from replica to
\* replica, and no two entities of a table of NewModel have the same name
SuffixesDiffer ==
    /\ \A n \in DOMAIN log :
          IsAdd(log[n].op) =>
             log[n].name = SeedTableOf(log[n].op)[log[n].seed].name
                             \o SuffixAt(log[n].r, log[n].c)
    /\ Cardinality({SuffixAt(cell[1], cell[2]) : cell \in Cells}) = gridr * gridc
    /\ Distinct(newmodel.params) /\ Distinct(newmodel.comps)
    /\ Distinct(newmodel.species) /\ Distinct(newmodel.reacts)

\* C2 as stated: the suffix is _i or _r,c, suffixes of distinct replicas
\* differ, and no suffixed name equals a suffixed name of another replica or an
\* original seed name of the same table.
C2_NoCollision ==
    /\ SuffixesDiffer
    /\ Names(newmodel.params) \cap Names(disk.mparams) = {}
    /\ Names(newmodel.comps) \cap Names(disk.mcomps) = {}
    /\ Names(newmodel.species) \cap Names(disk.mspecs) = {}
    /\ Names(newmodel.reacts) \cap Names(disk.mreacts) = {}

\* C2 as amended: the suffix is _i or _r,c, suffixes of distinct replicas
\* differ, no suffixed name equals a suffixed name of another replica, and a
\* suffixed name differs from the seed name it was made from (it may equal
\* another seed name of the table: A with suffix _1 is the seed name A_1).
C2_SuffixUnique ==
    /\ SuffixesDiffer
    /\ \A n \in DOMAIN log :
          IsAdd(log[n].op) =>
             log[n].name # SeedTableOf(log[n].op)[log[n].seed].name

\* the second replica of a set was named after a seed with the names A and A_1
C2_Witness ==
    /\ gridr = 1 /\ i = 1 /\ pc = "cell"
    /\ Len(disk.mparams) = 2
    /\ Len(newmodel.params) = 4
    /\ newmodel.params[4].name = <<"A", "_", "1", "_", "2">>

\* every replica went through all of its calls
GridComplete ==
    /\ i = gridr * gridc
    /\ Len(log) = gridr * gridc * Len(CellCalls)

\* NewModel holds what the calls made so far have put into it
NotRolledBack ==
    /\ newmodel.created
    /\ Len(newmodel.params) + Len(newmodel.comps) + Len(newmodel.species)
         + Len(newmodel.reacts)
       = Cardinality({n \in DOMAIN log : IsAdd(log[n].op)})

\* C7: the output file is written only after every replica went through all
\* of its phases; once a call of the Model Store has failed the run is over,
\* NewModel stays as the failure left it and no file is ever written.
C7_NoPartialSuccess ==
    /\ [](saved # <<>> => pc = "done" /\ status = 0 /\ GridComplete)
    /\ [](pc = "aborted" => saved = <<>> /\ status # 0)
    /\ [](pc = "aborted" /\ log # <<>> => NotRolledBack)
    /\ [][pc = "aborted" => pc' = "aborted" /\ newmodel' = newmodel /\ saved' = saved]_vars

\* a call failed in the middle of the grid
C7_Witness ==
    /\ pc = "aborted"
    /\ i = 1 /\ gridr * gridc > 2
    /\ k > 1 /\ k <= Len(CellCalls)
    /\ Len(newmodel.params) > seednparams
    /\ saved = <<>>

\* C8: with rows*columns = 1 the run ends at once with status 0, before the
\* seed model is loaded or NewModel created and without an output file; with
\* rows*columns > 1 the early exit is never taken.
C8_EarlyExit ==
    /\ pc = "exited" =>
          /\ gridr * gridc = 1
          /\ status = 0
          /\ ~seedmodel.loaded
          /\ ~newmodel.created
          /\ saved = <<>>
    /\ gridr * gridc = 1 => pc \in {"sanity", "exited"}
    /\ gridr * gridc > 1 => pc # "exited"

C8_Witness == pc = "exited" /\ status = 0 /\ gridr = 1 /\ gridc = 1

Phase(op) == IF op = "add_reaction" THEN 2 ELSE IF IsAdd(op) THEN 1 ELSE 3

Pos(e) == e.r * gridc + e.c

\* the replicas that have a call of phase ph or later in the log
CellsIn(ph) ==
    {<<log[n].r, log[n].c>> : n \in {m \in DOMAIN log : Phase(log[m].op) >= ph}}

RowMajorPhases ==
    /\ log # <<>> => Pos(log[1]) = 0
    /\ \A n \in 1..(Len(log) - 1) :
          \/ Pos(log[n + 1]) = Pos(log[n]) + 1
          \/ /\ Pos(log[n + 1]) = Pos(log[n])
             /\ Phase(log[n].op) <= Phase(log[n + 1].op)

SkeletonsFirst ==
    \A cell \in CellsIn(2) :
        /\ Suffixed(mparams, cell[1], cell[2]) \subseteq Names(newmodel.params)
        /\ Suffixed(mcomps, cell[1], cell[2]) \subseteq Names(newmodel.comps)
        /\ Suffixed(mspecs, cell[1], cell[2]) \subseteq Names(newmodel.species)

ReferencesExist ==
    \A cell \in CellsIn(3) :
        /\ Cardinality(CreatedBy("add_reaction", cell[1], cell[2])) = seednreacts
        /\ \A el \in Names(mparams) \cup Names(mcomps) \cup Names(mspecs)
                       \cup Names(mreacts) :
              is_element(el) =>
                 el \o SuffixAt(cell[1], cell[2])
                    \in Names(newmodel.params) \cup Names(newmodel.comps)
                          \cup Names(newmodel.species) \cup Names(newmodel.reacts)

Bare(row) == row.expression = <<>> /\ row.initial_expression = <<>>

\* a step that adds a row adds it bare, and a row changes only in phase 3
SkeletonsBare ==
    /\ \A T \in {"params", "comps", "species"} :
          /\ Len(newmodel'[T]) > Len(newmodel[T]) =>
                Bare(newmodel'[T][Len(newmodel'[T])])
          /\ (\E n \in DOMAIN newmodel[T] : newmodel'[T][n] # newmodel[T][n]) =>
                /\ Len(log') = Len(log) + 1
                /\ Phase(log'[Len(log')].op) = 3
    /\ \A n \in DOMAIN newmodel.reacts : newmodel'.reacts[n] = newmodel.reacts[n]

-----------------------------------------------------------------------------
(* fix_expression on its own *)

\* a reference to name in one of the syntaxes, or a literal piece of text
Item(kind, text, word) == [kind |-> kind, text |-> text, word |-> word]

IsRef(item) == item.kind # "lit"

\* the text of an item whose name carries sfx
Render(item, sfx) ==
    CASE item.kind = "bracket" -> <<"[">> \o item.text \o sfx \o <<"]">>
      [] item.kind = "paren" -> <<"(">> \o item.text \o sfx \o <<")">>
      [] item.kind = "dotted" -> item.text \o sfx \o <<".">> \o item.word
      [] item.kind = "pdotted" ->
            <<"(">> \o item.text \o sfx \o <<".">> \o item.word \o <<")">>
      [] OTHER -> item.text

TextOf(its) == Concat([n \in DOMAIN its |-> Render(its[n], <<>>)])

ItemNames == { <<"A">>, <<"C">>, <<"A", "C">>, <<"A", "_", "1">> }

References ==
    { Item(kind, name, <<"R">>) :
        kind \in {"bracket", "paren", "dotted", "pdotted"}, name \in ItemNames }

Literals ==
    { Item("lit", text, <<>>) :
        text \in { <<"+">>, <<"*">>, <<" ", "+", " ">>, <<"2", "*">> } }

\* references are separated by operators
WellFormed(its) ==
    \A n \in 1..(Len(its) - 1) : ~(IsRef(its[n]) /\ IsRef(its[n + 1]))

\* [A]+(B)+C.Rate
ExampleItems ==
    << Item("bracket", <<"A">>, <<>>), Item("lit", <<"+">>, <<>>),
       Item("paren", <<"B">>, <<>>), Item("lit", <<"+">>, <<>>),
       Item("dotted", <<"C">>, <<"R", "a", "t", "e">>) >>

ItemSeqs ==
    {its \in SeqsUpTo(References \cup Literals, MaxItems) : WellFormed(its)}
    \cup {ExampleItems}

\* a model with the elements A, V, B and C
SeedABC ==
    Seed(<< Parameter(<<"A">>, "fixed", <<>>, <<>>) >>,
         << Compartment(<<"V">>, "fixed", <<>>, <<>>) >>,
         << Species(<<"B">>, <<"V">>, "reactions", <<>>, <<>>) >>,
         << Reaction(<<"C">>, <<"B", " ", "-", ">">>, [k1 |-> NumVal(1)], "f") >>)

\* a model with the parameters A and A_1
SeedAA1 ==
    Seed(<< Parameter(<<"A">>, "fixed", <<>>, <<>>),
            Parameter(<<"A", "_", "1">>, "fixed", <<>>, <<>>) >>,
         <<>>, <<>>, <<>>)

ExprSeeds == {SeedABC, SeedAA1}

Suffixes == { <<"_", "1">>, <<"_", "2", ",", "1">>, <<"_", "3">> }

InitTables(seed) ==
    LET got == Tables(seed)
    IN  /\ disk = seed
        /\ seedmodel = [loaded |-> TRUE, mparams |-> seed.mparams,
                        mcomps |-> seed.mcomps, mspecs |-> seed.mspecs,
                        mreacts |-> seed.mreacts]
        /\ mparams = got.mparams /\ seednparams = got.seednparams
        /\ mcomps = got.mcomps /\ seedncomps = got.seedncomps
        /\ mspecs = got.mspecs /\ seednspecs = got.seednspecs
        /\ mreacts = got.mreacts /\ seednreacts = got.seednreacts

RunStopped ==
    /\ status = -1
    /\ seedmodelfile = <<"m", ".", "c", "p", "s">>
    /\ gridr = 1 /\ gridc = 3
    /\ newfilename = <<>>
    /\ newmodel = NoModel
    /\ i = 0 /\ r = 0 /\ c = 0 /\ k = 1
    /\ saved = <<>>
    /\ log = <<>>

InitFix ==
    /\ pc = "fix"
    /\ RunStopped
    /\ \E seed \in ExprSeeds : InitTables(seed)
    /\ apdx \in Suffixes
    /\ items \in ItemSeqs
    /\ expression = TextOf(items)
    /\ ex = <<>>
    /\ scheme = <<>> /\ rs = <<>> /\ mapping = <<>> /\ mapp = <<>>

FixExpression ==
    /\ pc = "fix"
    /\ ex' = fix_expression(expression, apdx)
    /\ pc' = "fixed"
    /\ UNCHANGED << status, argVars, newfilename, seedmodel, tableVars,
                    newmodel, loopVars, saved, log, expression, items,
                    scheme, rs, mapping, mapp >>

NextFix == FixExpression

SpecFix == InitFix /\ [][NextFix]_vars

\* the text of items, the name of item n followed by count[n] suffixes
Rewritten(count) ==
    Concat([n \in DOMAIN items |->
              Render(items[n],
                     Concat([m \in 1..count[n] |-> apdx]))])

IsElementRef(item) == IsRef(item) /\ is_element(item.text)

\* C3: fix_expression appends the suffix exactly once to every reference to a
\* seed element, in each of the syntaxes [name], (name) and name.word,
\* wherever the reference stands in the expression.
C3_EveryReferenceSuffixed ==
    pc = "fixed" =>
        \E count \in [DOMAIN items -> 0..1] :
            /\ \A n \in DOMAIN items :
                  /\ IsElementRef(items[n]) => count[n] = 1
                  /\ ~IsRef(items[n]) => count[n] = 0
            /\ ex = Rewritten(count)

\* C4: fix_expression leaves every bracketed, parenthesized or dotted
\* identifier that is not the name of a seed element unchanged, also when an
\* element name is a part of that identifier.
C4_NonElementsUnchanged ==
    pc = "fixed" =>
        \E count \in [DOMAIN items -> 0..2] :
            /\ \A n \in DOMAIN items :
                  ~IsElementRef(items[n]) => count[n] = 0
            /\ ex = Rewritten(count)

-----------------------------------------------------------------------------
(* The scheme of a reaction on its own *)

Pieces ==
    { <<"A">>, <<"B">>, <<"2">>, <<".">>, <<"e">>, <<"n", "a", "n">>, <<"+">>,
      <<"-", ">">>, <<"*">>, <<"=">>, <<" ">>, <<";">> }

\* A + 2 * B -> C; D
ExampleScheme ==
    <<"A", " ", "+", " ", "2", " ", "*", " ", "B", " ", "-", ">", " ", "C",
      ";", " ", "D">>

Schemes ==
    {Concat(ps) : ps \in SeqsUpTo(Pieces, MaxPieces)} \cup {ExampleScheme}

InitScheme ==
    /\ pc = "scheme"
    /\ RunStopped
    /\ InitTables(SeedABC)
    /\ apdx \in Suffixes
    /\ scheme \in Schemes
    /\ rs = <<>>
    /\ expression = <<>> /\ items = <<>> /\ ex = <<>>
    /\ mapping = <<>> /\ mapp = <<>>

FixScheme ==
    /\ pc = "scheme"
    /\ rs' = RewriteScheme(scheme, apdx)
    /\ pc' = "schemed"
    /\ UNCHANGED << status, argVars, newfilename, seedmodel, tableVars,
                    newmodel, loopVars, saved, log, expression, items, ex,
                    scheme, mapping, mapp >>

NextScheme == FixScheme

SpecScheme == InitScheme /\ [][NextScheme]_vars

Clauses == SplitOn(scheme, ";")

IsKept(t) ==
    t \in { <<"=">>, <<"-", ">">>, <<"+">>, <<"*">> } \/ is_float(t)

\* operators and numbers as they are, every other token with the suffix
ByRule(toks) ==
    [n \in DOMAIN toks |-> IF IsKept(toks[n]) THEN toks[n] ELSE toks[n] \o apdx]

AllSuffixed(toks) == [n \in DOMAIN toks |-> toks[n] \o apdx]

\* the tokens joined by single blanks, and a blank after the last one
Spaced(toks) ==
    IF toks = <<>> THEN <<>> ELSE Join(toks, <<" ">>) \o <<" ">>

\* C5 as stated: the tokens of the main clause, rewritten by the rule and
\* joined by single blanks; a modifier clause is appended after ' ; ' with its
\* tokens rewritten by the same rule: A_2,1 + 2 * B_2,1 -> C_2,1 ; D_2,1.
C5_SchemeAsStated ==
    pc = "schemed" =>
        rs = Join(ByRule(SplitWs(Clauses[1])), <<" ">>)
               \o (IF Len(Clauses) > 1
                   THEN <<" ", ";", " ">>
                          \o Join(ByRule(SplitWs(Clauses[2])), <<" ">>)
                   ELSE <<>>)

\* C5 as amended: every token of the main clause is rewritten by the rule and
\* followed by one blank; with a ';' in the scheme the last blank gives way to
\* '; ' and every token of the clause after the first ';' follows with the
\* suffix, whatever the token, and one blank; later clauses are dropped.
C5_SchemeRewritten ==
    pc = "schemed" =>
        rs = IF Len(Clauses) = 1
             THEN Spaced(ByRule(SplitWs(Clauses[1])))
             ELSE Join(ByRule(SplitWs(Clauses[1])), <<" ">>) \o <<";", " ">>
                    \o Spaced(AllSuffixed(SplitWs(Clauses[2])))

\* the example: A_2,1 + 2 * B_2,1 -> C_2,1; D_2,1 and a blank
C5_Witness ==
    /\ pc = "schemed"
    /\ scheme = ExampleScheme
    /\ apdx = <<"_", "2", ",", "1">>
    /\ rs = <<"A", "_", "2", ",", "1", " ", "+", " ", "2", " ", "*", " ",
              "B", "_", "2", ",", "1", " ", "-", ">", " ",
              "C", "_", "2", ",", "1", ";", " ",
              "D", "_", "2", ",", "1", " ">>

-----------------------------------------------------------------------------
(* The mapping of a reaction on its own *)

TargetNames == { <<"X">>, <<"Y">> }

Values ==
    {StrVal(s) : s \in TargetNames}
    \cup {ListVal(l) : l \in SeqsUpTo(TargetNames, MaxList)}
    \cup {NumVal(1)}

Mappings ==
    UNION {[keys -> Values] : keys \in SUBSET {"k1", "k2"}}

InitMapping ==
    /\ pc = "mapping"
    /\ RunStopped
    /\ InitTables(SeedABC)
    /\ apdx \in Suffixes
    /\ mapping \in Mappings
    /\ mapp = <<>>
    /\ expression = <<>> /\ items = <<>> /\ ex = <<>>
    /\ scheme = <<>> /\ rs = <<>>

RewriteMapping ==
    /\ pc = "mapping"
    /\ LET fixed == FixMapping(mapping, apdx)
       IN  /\ mapping' = fixed.seed
           /\ mapp' = fixed.mapp
    /\ pc' = "mapped"
    /\ UNCHANGED << status, argVars, newfilename, seedmodel, tableVars,
                    newmodel, loopVars, saved, log, expression, items, ex,
                    scheme, rs >>

NextMapping == RewriteMapping

SpecMapping == InitMapping /\ [][NextMapping]_vars

\* C6: the rewritten table has the keys of the reaction's table; a string
\* gets the suffix, a list becomes the list of its elements with the suffix,
\* in the same order, any other value is passed through, and the table of the
\* seed model is left as it was.
C6_MappingRewritten ==
    [][pc = "mapping" =>
          /\ mapping' = mapping
          /\ DOMAIN mapp' = DOMAIN mapping
          /\ \A key \in DOMAIN mapping :
                LET v == mapping[key]
                    w == mapp'[key]
                IN  CASE v.t = "str" -> w.t = "str" /\ w.s = v.s \o apdx
                      [] v.t = "list" ->
                            /\ w.t = "list"
                            /\ Len(w.l) = Len(v.l)
                            /\ \A n \in DOMAIN v.l : w.l[n] = v.l[n] \o apdx
                      [] OTHER -> w = v]_vars

\* {k1: X, k2: [Y, Y]} with suffix _3 gave {k1: X_3, k2: [Y_3, Y_3]}
C6_Witness ==
    /\ pc = "mapped"
    /\ apdx = <<"_", "3">>
    /\ mapping = [k1 |-> StrVal(<<"X">>), k2 |-> ListVal(<< <<"Y">>, <<"Y">> >>)]
    /\ mapp = [k1 |-> StrVal(<<"X", "_", "3">>),
               k2 |-> ListVal(<< <<"Y", "_", "3">>, <<"Y", "_", "3">> >>)]

-----------------------------------------------------------------------------
(* The name of the output file on its own *)

\* model.cps
ExampleFile == <<"m", "o", "d", "e", "l", ".", "c", "p", "s">>

Files ==
    (SeqsUpTo({"m", "x", ".", "/"}, MaxFileLen) \ {<<>>}) \cup {ExampleFile}

InitFile ==
    /\ pc = "sanity"
    /\ seedmodelfile \in Files
    /\ \E g \in Grids : gridr = g[1] /\ gridc = g[2]
    /\ disk = SeedABC
    /\ apdx = <<>>
    /\ RunIdle /\ NoTables /\ PureIdle

NextFile == SanityCheck

SpecFile == InitFile /\ [][NextFile]_vars

\* _N for N replicas in a row or a column, _RxC for a grid
FileSuffix ==
    IF gridr > 1 /\ gridc > 1
    THEN <<"_">> \o Str(gridr) \o <<"x">> \o Str(gridc)
    ELSE <<"_">> \o Str(gridr * gridc)

\* the file name is a name of word characters, a dot and an extension of
\* word characters, the dot at position d
IsNameDotExt(d) ==
    /\ d > 1 /\ d < Len(seedmodelfile)
    /\ seedmodelfile[d] = "."
    /\ \A n \in DOMAIN seedmodelfile : n # d => IsWord(seedmodelfile[n])

\* C9 as stated: for a seed file base.ext the output file is
\* base + suffix + '.' + ext.
C9_FileNameAsStated ==
    pc = "load" =>
        \A d \in DOMAIN seedmodelfile :
            IsNameDotExt(d) =>
               newfilename = SubSeq(seedmodelfile, 1, d - 1) \o FileSuffix
                               \o SubSeq(seedmodelfile, d, Len(seedmodelfile))

\* C9 as amended: the output file is base + suffix + '.cps' whatever the
\* extension of the seed file, base being the seed file name without its last
\* extension.
C9_FileName ==
    pc = "load" =>
        /\ newfilename = splitext(seedmodelfile).base \o FileSuffix
                           \o <<".", "c", "p", "s">>
        /\ \A d \in DOMAIN seedmodelfile :
              IsNameDotExt(d) =>
                 newfilename = SubSeq(seedmodelfile, 1, d - 1) \o FileSuffix
                                 \o <<".", "c", "p", "s">>

\* m.x with three rows gave m_3.cps
C9_Witness ==
    /\ pc = "load"
    /\ seedmodelfile = <<"m", ".", "x">>
    /\ gridr = 3 /\ gridc = 1
    /\ newfilename = <<"m", "_", "3", ".", "c", "p", "s">>

====
